---- MODULE Spec2Model ----
(***************************************************************************)
(* Model of nx_witness_storage_calculator.py: the storage calculator class *)
(* NXWitnessStorageCalculator and the interactive menu loop.               *)
(*                                                                         *)
(* Numbers.  The program computes with Python floats.  The model computes  *)
(* with exact rationals [n |-> numerator, d |-> denominator > 0] kept in   *)
(* lowest terms.  The only place where the binary representation error of  *)
(* a float decides a result is round(x, 2) on a value that is an exact     *)
(* decimal tie (x * 100 = k + 1/2): the double nearest to x lies on one    *)
(* side of the tie or the other.  round is therefore modelled by the set   *)
(* of results it can deliver: one result off a tie, both neighbours on a   *)
(* tie.                                                                    *)
(***************************************************************************)
EXTENDS Integers, Sequences, FiniteSets, TLC

(* ---------------- bounds of the explored inputs ---------------- *)
MaxBitrate == 4       \* bitrates 0 .. MaxBitrate Mbps
MaxHalfDays == 14     \* durations 0 .. MaxHalfDays half days
MaxHours == 12        \* hourly durations 0 .. MaxHours hours
MaxFpsStep == 6       \* frame rates 0, 5, .. 5 * MaxFpsStep
MaxCameras == 2       \* camera lists of at most MaxCameras cameras
MaxCamBitrate == 1    \* camera bitrates 1 .. MaxCamBitrate Mbps
MaxFleetDays == 3     \* fleet durations 0 .. MaxFleetDays days
MaxScaleHalves == 6   \* scaling factors 1/2, 1, .. MaxScaleHalves / 2
MaxMenuCameras == 2   \* the menu's choice 5 with at most MaxMenuCameras cameras

(* ---------------- class constants ---------------- *)
SECONDS_PER_DAY == 86400
BITS_TO_BYTES == 8
MB_TO_GB == 1024
DEFAULT_REFERENCE_FPS == 25
HOURS_PER_DAY == 24
NDIGITS == 2

(* ---------------- exact rational arithmetic (Python float operators) --- *)
Abs(x) == IF x < 0 THEN -x ELSE x

RECURSIVE Gcd(_, _)
Gcd(a, b) == IF b = 0 THEN a ELSE Gcd(b, a % b)

\* the number n / d (d # 0) in lowest terms with a positive denominator
Rat(n, d) ==
    LET g == Gcd(Abs(n), Abs(d))
        s == IF d < 0 THEN -1 ELSE 1
    IN  [n |-> s * (n \div g), d |-> s * (d \div g)]

RInt(i) == [n |-> i, d |-> 1]

\* x * y ; the cross reduction keeps the intermediate products small
RMul(x, y) ==
    LET a == Rat(x.n, y.d)
        b == Rat(y.n, x.d)
    IN  Rat(a.n * b.n, a.d * b.d)

\* x / y for y # 0 ; the callers raise ZeroDivisionError for y = 0
RDiv(x, y) == RMul(x, Rat(y.d, y.n))

RAdd(x, y) == Rat(x.n * y.d + y.n * x.d, x.d * y.d)

RSub(x, y) == Rat(x.n * y.d - y.n * x.d, x.d * y.d)

IsZero(x) == x.n = 0

RECURSIVE Pow10(_)
Pow10(k) == IF k = 0 THEN 1 ELSE 10 * Pow10(k - 1)

\* round(x, ndigits), and the formatting "{x:.<ndigits>f}": the results the
\* call can deliver, as rationals
RoundOutcomes(x, ndigits) ==
    LET scale == Pow10(ndigits)
        scaled == x.n * scale
        fl == scaled \div x.d
        rem == scaled % x.d
    IN  IF 2 * rem < x.d THEN {Rat(fl, scale)}
        ELSE IF 2 * rem > x.d THEN {Rat(fl + 1, scale)}
        ELSE {Rat(fl, scale), Rat(fl + 1, scale)}

\* a rounded result counted in hundredths
Hundredths(x) == (x.n * 100) \div x.d

(* ---------------- results of a call ---------------- *)
Returned(v) == [exc |-> "none", val |-> v]
Raised(e) == [exc |-> e, val |-> RInt(0)]

(* ---------------- NXWitnessStorageCalculator ---------------- *)
compression_factor == Rat(356, 1000)

\* calculate_storage_gb with the digits of the compression factor swapped
calculate_storage_gb_WrongFactor(bitrate_mbps, days) ==
    LET theoretical_storage ==
            RDiv(RMul(RMul(bitrate_mbps, RInt(SECONDS_PER_DAY)), days),
                 RInt(BITS_TO_BYTES * MB_TO_GB))
        storage_gb == RMul(theoretical_storage, Rat(365, 1000))
    IN  RoundOutcomes(storage_gb, NDIGITS)

\* calculate_storage_gb rounding to whole GB: round(storage_gb)
calculate_storage_gb_RoundsToUnits(bitrate_mbps, days) ==
    LET theoretical_storage ==
            RDiv(RMul(RMul(bitrate_mbps, RInt(SECONDS_PER_DAY)), days),
                 RInt(BITS_TO_BYTES * MB_TO_GB))
        storage_gb == RMul(theoretical_storage, compression_factor)
    IN  RoundOutcomes(storage_gb, 0)

\* calculate_storage_gb cutting the digits after the second decimal
calculate_storage_gb_Truncates(bitrate_mbps, days) ==
    LET theoretical_storage ==
            RDiv(RMul(RMul(bitrate_mbps, RInt(SECONDS_PER_DAY)), days),
                 RInt(BITS_TO_BYTES * MB_TO_GB))
        storage_gb == RMul(theoretical_storage, compression_factor)
    IN  {Rat((storage_gb.n * 100) \div storage_gb.d, 100)}

\* calculate_storage_gb(bitrate_mbps, days): the values it can return
calculate_storage_gb(bitrate_mbps, days) ==
    LET theoretical_storage ==
            RDiv(RMul(RMul(bitrate_mbps, RInt(SECONDS_PER_DAY)), days),
                 RInt(BITS_TO_BYTES * MB_TO_GB))
        storage_gb == RMul(theoretical_storage, compression_factor)
    IN  RoundOutcomes(storage_gb, NDIGITS)

quick_coefficient == Rat(375, 100)

\* calculate_storage_quick derived from the exact formula
calculate_storage_quick_FromExact(bitrate_mbps, days) ==
    calculate_storage_gb(bitrate_mbps, days)

\* calculate_storage_quick(bitrate_mbps, days)
calculate_storage_quick(bitrate_mbps, days) ==
    RoundOutcomes(RMul(RMul(bitrate_mbps, quick_coefficient), days), NDIGITS)

\* calculate_storage_hourly(bitrate_mbps, hours)
calculate_storage_hourly(bitrate_mbps, hours) ==
    LET days == RDiv(hours, RInt(HOURS_PER_DAY))
    IN  calculate_storage_gb(bitrate_mbps, days)

\* the optional argument reference_fps: None or a number
None == [val |-> RInt(0), given |-> FALSE]
Some(v) == [val |-> v, given |-> TRUE]

\* calculate_effective_bitrate with fps // reference_fps for fps / reference_fps
calculate_effective_bitrate_FloorDivision(self_reference_fps, base_bitrate, fps, reference_fps) ==
    LET ref == IF ~reference_fps.given THEN self_reference_fps
               ELSE reference_fps.val
    IN  IF IsZero(ref) THEN {Raised("ZeroDivisionError")}
        ELSE {Returned(v) :
                 v \in RoundOutcomes(
                     RMul(base_bitrate, RInt((fps.n * ref.d) \div (fps.d * ref.n))),
                     NDIGITS)}

\* calculate_effective_bitrate with "if not reference_fps" for
\* "if reference_fps is None"
calculate_effective_bitrate_FalsyDefault(self_reference_fps, base_bitrate, fps, reference_fps) ==
    LET ref == IF ~reference_fps.given \/ IsZero(reference_fps.val)
               THEN self_reference_fps
               ELSE reference_fps.val
    IN  IF IsZero(ref) THEN {Raised("ZeroDivisionError")}
        ELSE {Returned(v) : v \in RoundOutcomes(RMul(base_bitrate, RDiv(fps, ref)), NDIGITS)}

\* calculate_effective_bitrate(base_bitrate, fps, reference_fps = None) on a
\* calculator whose attribute reference_fps is self_reference_fps: the
\* results (returned values or the raised exception) it can end in
calculate_effective_bitrate(self_reference_fps, base_bitrate, fps, reference_fps) ==
    LET ref == IF ~reference_fps.given THEN self_reference_fps
               ELSE reference_fps.val
    IN  IF IsZero(ref) THEN {Raised("ZeroDivisionError")}
        ELSE {Returned(v) : v \in RoundOutcomes(RMul(base_bitrate, RDiv(fps, ref)), NDIGITS)}

\* camera.get(key, default) on a camera dictionary
CameraGet(camera, key, default) ==
    IF key \in DOMAIN camera THEN camera[key] ELSE default

\* the loop over the cameras with total_storage_gb = storage_gb for
\* total_storage_gb += storage_gb
RECURSIVE FleetLoop_OverwritesTotal(_, _, _, _)
FleetLoop_OverwritesTotal(cameras, days, i, results) ==
    IF i > Len(cameras)
    THEN {[results EXCEPT !.total_storage_tb = tb] :
             tb \in RoundOutcomes(RDiv(results.total_storage_gb, RInt(MB_TO_GB)), NDIGITS)}
    ELSE
      LET camera == cameras[i]
          name == CameraGet(camera, "name", <<"Camera", i>>)
          bitrate == CameraGet(camera, "bitrate", RInt(0))
          fps == CameraGet(camera, "fps", RInt(DEFAULT_REFERENCE_FPS))
          hours_per_day == CameraGet(camera, "hours_per_day", RInt(HOURS_PER_DAY))
          effective_bitrate == RMul(bitrate, RDiv(hours_per_day, RInt(HOURS_PER_DAY)))
      IN  UNION {
            UNION {
              FleetLoop_OverwritesTotal(cameras, days, i + 1,
                [cameras |-> Append(results.cameras,
                     [storage_gb |-> storage_gb, fps |-> fps, name |-> name,
                      bitrate |-> bitrate, hours_per_day |-> hours_per_day,
                      effective_bitrate |-> shown]),
                 total_storage_tb |-> results.total_storage_tb,
                 total_storage_gb |-> storage_gb]) :
              shown \in RoundOutcomes(effective_bitrate, NDIGITS)} :
            storage_gb \in calculate_storage_gb(effective_bitrate, days)}

\* the body of the loop over the cameras, from camera number i on, with the
\* dictionary results built so far; ends with the conversion to TB
RECURSIVE FleetLoop(_, _, _, _)
FleetLoop(cameras, days, i, results) ==
    IF i > Len(cameras)
    THEN {[results EXCEPT !.total_storage_tb = tb] :
             tb \in RoundOutcomes(RDiv(results.total_storage_gb, RInt(MB_TO_GB)), NDIGITS)}
    ELSE
      LET camera == cameras[i]
          name == CameraGet(camera, "name", <<"Camera", i>>)
          bitrate == CameraGet(camera, "bitrate", RInt(0))
          fps == CameraGet(camera, "fps", RInt(DEFAULT_REFERENCE_FPS))
          hours_per_day == CameraGet(camera, "hours_per_day", RInt(HOURS_PER_DAY))
          effective_bitrate == RMul(bitrate, RDiv(hours_per_day, RInt(HOURS_PER_DAY)))
      IN  UNION {
            UNION {
              FleetLoop(cameras, days, i + 1,
                [cameras |-> Append(results.cameras,
                     [storage_gb |-> storage_gb, fps |-> fps, name |-> name,
                      bitrate |-> bitrate, hours_per_day |-> hours_per_day,
                      effective_bitrate |-> shown]),
                 total_storage_tb |-> results.total_storage_tb,
                 total_storage_gb |-> RAdd(results.total_storage_gb, storage_gb)]) :
              shown \in RoundOutcomes(effective_bitrate, NDIGITS)} :
            storage_gb \in calculate_storage_gb(effective_bitrate, days)}

\* calculate_multiple_cameras(cameras_data, days): the reports it can return
calculate_multiple_cameras(cameras, days) ==
    FleetLoop(cameras, days, 1,
              [cameras |-> <<>>, total_storage_tb |-> RInt(0),
               total_storage_gb |-> RInt(0)])

\* generate_storage_table(bitrates, durations): the tables it can return,
\* each as the sequence of its cells, row by row, from cell number k on
RECURSIVE TableCells(_, _, _)
TableCells(bitrates, durations, k) ==
    IF k > Len(bitrates) * Len(durations) THEN {<<>>}
    ELSE LET bitrate == bitrates[((k - 1) \div Len(durations)) + 1]
             days == durations[((k - 1) % Len(durations)) + 1]
         IN  {<<v>> \o rest :
                  v \in calculate_storage_gb(RInt(bitrate), RInt(days)),
                  rest \in TableCells(bitrates, durations, k + 1)}

generate_storage_table(bitrates, durations) == TableCells(bitrates, durations, 1)

\* print_storage_table() with its default arguments: the tables it can show
print_storage_table == generate_storage_table(<<1, 2, 3, 4, 5>>, <<1, 7, 15, 30>>)

\* print_quick_reference(): the three figures it can show
print_quick_reference ==
    {<<h, d, m>> :
        h \in UNION {RoundOutcomes(v, 2) : v \in calculate_storage_hourly(RInt(1), RInt(1))},
        d \in UNION {RoundOutcomes(v, 2) : v \in calculate_storage_gb(RInt(1), RInt(1))},
        m \in UNION {RoundOutcomes(v, 0) : v \in calculate_storage_gb(RInt(1), RInt(30))}}

(* ---------------- state ---------------- *)
\* reference_fps : the calculator's attribute self.reference_fps
\* op            : the method called last ("init": none yet)
\* args          : its arguments
\* result        : what it returned or raised
\* cameras_data  : the list object passed to it, as the call left it
\*                 (<<>> when the method takes no list)
\* pc            : interactive_calculator, the position of the menu loop
\* screen        : interactive_calculator, what the last step showed
\* fault         : interactive_calculator, the exception that ended it
\* menu_cameras  : interactive_calculator, its local cameras_data
VARIABLES reference_fps, op, args, result, cameras_data, pc, screen, fault, menu_cameras

calc_vars == <<reference_fps, op, args, result, cameras_data>>
menu_vars == <<pc, screen, fault, menu_cameras>>
vars == <<reference_fps, op, args, result, cameras_data, pc, screen, fault, menu_cameras>>

Bitrates == {RInt(b) : b \in 0..MaxBitrate}
Days == {Rat(h, 2) : h \in 0..MaxHalfDays}
Hours == {RInt(h) : h \in 0..MaxHours}
FpsValues == {RInt(5 * i) : i \in 0..MaxFpsStep}

HourChoices == {8, 12, 24}
CameraProfiles ==
    {[fps |-> RInt(DEFAULT_REFERENCE_FPS), name |-> <<"Cam", 1>>, bitrate |-> RInt(b),
      hours_per_day |-> RInt(h)] : b \in 1..MaxCamBitrate, h \in HourChoices}
    \cup {[bitrate |-> RInt(1)]}
CameraLists == UNION {[1..n -> CameraProfiles] : n \in 0..MaxCameras}
FleetDays == {RInt(d) : d \in 0..MaxFleetDays}

Blank == [shown |-> "", vals |-> <<>>]

\* __init__ : a fresh calculator, no call made yet; the menu not yet entered
Init ==
    /\ reference_fps = RInt(DEFAULT_REFERENCE_FPS)
    /\ op = "init"
    /\ args = <<>>
    /\ result = Returned(RInt(0))
    /\ cameras_data = <<>>
    /\ pc = "menu"
    /\ screen = Blank
    /\ fault = "none"
    /\ menu_cameras = <<>>

(* ---------------- calls of the calculator's methods ---------------- *)
CallStorageGb ==
    \E b \in Bitrates, d \in Days :
        \E r \in calculate_storage_gb(b, d) :
            /\ op' = "calculate_storage_gb"
            /\ args' = [bitrate_mbps |-> b, days |-> d]
            /\ result' = Returned(r)
            /\ cameras_data' = <<>>
            /\ UNCHANGED <<reference_fps, menu_vars>>

CallStorageQuick ==
    \E b \in Bitrates, d \in Days :
        \E r \in calculate_storage_quick(b, d) :
            /\ op' = "calculate_storage_quick"
            /\ args' = [bitrate_mbps |-> b, days |-> d]
            /\ result' = Returned(r)
            /\ cameras_data' = <<>>
            /\ UNCHANGED <<reference_fps, menu_vars>>

CallStorageHourly ==
    \E b \in Bitrates, h \in Hours :
        \E r \in calculate_storage_hourly(b, h) :
            /\ op' = "calculate_storage_hourly"
            /\ args' = [bitrate_mbps |-> b, hours |-> h]
            /\ result' = Returned(r)
            /\ cameras_data' = <<>>
            /\ UNCHANGED <<reference_fps, menu_vars>>

\* the call of calculate_effective_bitrate keeping the reference_fps it was
\* given as the calculator's new default
CallEffectiveBitrate_StoresReference ==
    \E b \in Bitrates, f \in FpsValues,
       ref \in {None} \cup {Some(v) : v \in FpsValues} :
        \E r \in calculate_effective_bitrate(reference_fps, b, f, ref) :
            /\ op' = "calculate_effective_bitrate"
            /\ args' = [base_bitrate |-> b, fps |-> f, reference_fps |-> ref]
            /\ result' = r
            /\ cameras_data' = <<>>
            /\ reference_fps' = IF ref.given THEN ref.val ELSE reference_fps
            /\ UNCHANGED menu_vars

CallEffectiveBitrate ==
    \E b \in Bitrates, f \in FpsValues,
       ref \in {None} \cup {Some(v) : v \in FpsValues} :
        \E r \in calculate_effective_bitrate(reference_fps, b, f, ref) :
            /\ op' = "calculate_effective_bitrate"
            /\ args' = [base_bitrate |-> b, fps |-> f, reference_fps |-> ref]
            /\ result' = r
            /\ cameras_data' = <<>>
            /\ UNCHANGED <<reference_fps, menu_vars>>

CallMultipleCameras ==
    \E cams \in CameraLists, d \in FleetDays :
        \E r \in calculate_multiple_cameras(cams, d) :
            /\ op' = "calculate_multiple_cameras"
            /\ args' = [days |-> d, cameras_data |-> cams]
            /\ result' = Returned(r)
            /\ cameras_data' = cams
            /\ UNCHANGED <<reference_fps, menu_vars>>

(* ---------------- interactive_calculator ---------------- *)
\* what the user can do at a prompt
Number(v) == [val |-> v, kind |-> "number"]          \* a text that parses to v
Junk == [val |-> RInt(0), kind |-> "junk"]           \* a text that does not parse
Empty == [val |-> RInt(0), kind |-> "empty"]         \* just Enter
Interrupt == [val |-> RInt(0), kind |-> "interrupt"] \* Ctrl-C

\* float(input(...)), and float(input(...) or "<default>")
ParseFloat(token, default) ==
    IF token.kind = "interrupt" THEN Raised("KeyboardInterrupt")
    ELSE IF token.kind = "number" THEN Returned(token.val)
    ELSE IF token.kind = "empty" /\ default.given THEN Returned(default.val)
    ELSE Raised("ValueError")

\* int(input(...))
ParseInt(token) ==
    IF token.kind = "interrupt" THEN Raised("KeyboardInterrupt")
    ELSE IF token.kind = "number" /\ token.val.d = 1 THEN Returned(token.val)
    ELSE Raised("ValueError")

\* how the body of a menu option ends: by showing something or by raising
Shows(text, values) == [exc |-> "none", screen |-> [shown |-> text, vals |-> values]]
Ends(e) == [exc |-> e, screen |-> Blank]

\* choice "1": storage for a bitrate and a duration
Option1Body(t_bitrate, duration_type, t_duration) ==
    LET bitrate == ParseFloat(t_bitrate, None)
        duration == ParseFloat(t_duration, None)
    IN  IF bitrate.exc # "none" THEN {Ends(bitrate.exc)}
        ELSE IF duration_type = "days" THEN
            IF duration.exc # "none" THEN {Ends(duration.exc)}
            ELSE {Shows("Storage Calculation Results: days",
                        <<bitrate.val, duration.val, storage_gb, storage_quick>>) :
                     storage_gb \in calculate_storage_gb(bitrate.val, duration.val),
                     storage_quick \in calculate_storage_quick(bitrate.val, duration.val)}
        ELSE IF duration_type = "hours" THEN
            IF duration.exc # "none" THEN {Ends(duration.exc)}
            ELSE {Shows("Storage Calculation Results: hours",
                        <<bitrate.val, duration.val, storage_gb>>) :
                     storage_gb \in calculate_storage_hourly(bitrate.val, duration.val)}
        ELSE {Shows("Invalid duration type. Please enter 'days' or 'hours'.", <<>>)}

\* choice "2": FPS impact on bitrate and on the storage of one day
Option2Body(self_reference_fps, t_base, t_reference, t_new) ==
    LET base_bitrate == ParseFloat(t_base, None)
        ref == ParseFloat(t_reference, Some(RInt(25)))
        new_fps == ParseFloat(t_new, None)
    IN  IF base_bitrate.exc # "none" THEN {Ends(base_bitrate.exc)}
        ELSE IF ref.exc # "none" THEN {Ends(ref.exc)}
        ELSE IF new_fps.exc # "none" THEN {Ends(new_fps.exc)}
        ELSE UNION {
            IF effective.exc # "none" THEN {Ends(effective.exc)}
            ELSE UNION { UNION {
                IF IsZero(original_storage) THEN {Ends("ZeroDivisionError")}
                ELSE {Shows("FPS Impact Calculation",
                            <<base_bitrate.val, ref.val, new_fps.val, effective.val,
                              original_storage, new_storage, increase>>) :
                         increase \in RoundOutcomes(
                             RMul(RDiv(RSub(new_storage, original_storage),
                                       original_storage), RInt(100)), 1)} :
                new_storage \in calculate_storage_gb(effective.val, RInt(1))} :
                original_storage \in calculate_storage_gb(base_bitrate.val, RInt(1))} :
            effective \in calculate_effective_bitrate(self_reference_fps,
                              base_bitrate.val, new_fps.val, Some(ref.val))}

\* choice "5", the loop that asks for the cameras: camera number i + 1 of
\* num_cameras, with the cameras read so far
RECURSIVE ReadCameras(_, _, _, _)
ReadCameras(tokens, num_cameras, i, cameras) ==
    IF i >= num_cameras THEN Returned(cameras)
    ELSE LET bitrate == ParseFloat(tokens[i + 1][1], None)
             fps == ParseFloat(tokens[i + 1][2], Some(RInt(25)))
             hours_per_day == ParseFloat(tokens[i + 1][3], Some(RInt(24)))
         IN  IF bitrate.exc # "none" THEN Raised(bitrate.exc)
             ELSE IF fps.exc # "none" THEN Raised(fps.exc)
             ELSE IF hours_per_day.exc # "none" THEN Raised(hours_per_day.exc)
             ELSE ReadCameras(tokens, num_cameras, i + 1,
                      Append(cameras,
                          [fps |-> fps.val, name |-> <<"Cam", i + 1>>,
                           bitrate |-> bitrate.val,
                           hours_per_day |-> hours_per_day.val]))

\* calculate_multiple_cameras followed by print_multiple_cameras_results
FleetScreens(cameras, days) ==
    {Shows("MULTIPLE CAMERAS STORAGE CALCULATION", <<cameras, days, results>>) :
        results \in calculate_multiple_cameras(cameras, days)}

\* choice "5" up to the first table of results
Option5Body(t_num, t_days, t_cameras) ==
    LET num_cameras == ParseInt(t_num)
        days == ParseFloat(t_days, None)
        read == ReadCameras(t_cameras, num_cameras.val.n, 0, <<>>)
    IN  IF num_cameras.exc # "none" THEN {Ends(num_cameras.exc)}
        ELSE IF num_cameras.val.n <= 0
             THEN {Shows("[ERROR] Number of cameras must be positive.", <<>>)}
        ELSE IF days.exc # "none" THEN {Ends(days.exc)}
        ELSE IF read.exc # "none" THEN {Ends(read.exc)}
        ELSE FleetScreens(read.val, days.val)

MenuNumbers == {0, 1, 2, 25, 30}
Tokens == {Junk, Empty, Interrupt} \cup {Number(RInt(v)) : v \in MenuNumbers}
DurationTypes == {"days", "hours", "weeks"}
CountTokens == {Junk, Number(Rat(1, 2))} \cup {Number(RInt(k)) : k \in 0..MaxMenuCameras}
CameraTokens ==
    {Junk, Number(RInt(1))} \X {Empty, Number(RInt(30))} \X {Empty, Number(RInt(12))}

InvalidInput == [shown |-> "[ERROR] Invalid input. Please enter valid numbers.", vals |-> <<>>]
Cancelled == [shown |-> "[ERROR] Operation cancelled.", vals |-> <<>>]

\* the end of one pass through the loop body whose try block ended as
\* outcome: caught names the exceptions of its except clauses, after is the
\* position when nothing was raised
EndOfBody(outcome, caught, after) ==
    IF outcome.exc = "none"
    THEN /\ pc' = after
         /\ screen' = outcome.screen
         /\ fault' = fault
    ELSE IF outcome.exc \in caught
    THEN /\ pc' = "menu"
         /\ screen' = IF outcome.exc = "ValueError" THEN InvalidInput ELSE Cancelled
         /\ fault' = fault
    ELSE /\ pc' = "terminated"
         /\ screen' = screen
         /\ fault' = outcome.exc

MenuOption1 ==
    /\ pc = "menu"
    /\ \E t_bitrate \in Tokens, duration_type \in DurationTypes, t_duration \in Tokens :
         \E outcome \in Option1Body(t_bitrate, duration_type, t_duration) :
            EndOfBody(outcome, {"ValueError"}, "menu")
    /\ UNCHANGED <<calc_vars, menu_cameras>>

MenuOption2 ==
    /\ pc = "menu"
    /\ \E t_base \in Tokens, t_reference \in Tokens, t_new \in Tokens :
         \E outcome \in Option2Body(reference_fps, t_base, t_reference, t_new) :
            EndOfBody(outcome, {"ValueError"}, "menu")
    /\ UNCHANGED <<calc_vars, menu_cameras>>

MenuOption3 ==
    /\ pc = "menu"
    /\ \E table \in print_storage_table :
         screen' = [shown |-> "NX WITNESS STORAGE ESTIMATION TABLE", vals |-> table]
    /\ UNCHANGED <<calc_vars, pc, fault, menu_cameras>>

MenuOption4 ==
    /\ pc = "menu"
    /\ \E figures \in print_quick_reference :
         screen' = [shown |-> "NX WITNESS QUICK REFERENCE VALUES", vals |-> figures]
    /\ UNCHANGED <<calc_vars, pc, fault, menu_cameras>>

MenuOption5 ==
    /\ pc = "menu"
    /\ \E t_num \in CountTokens, t_days \in Tokens,
          t_cameras \in [1..MaxMenuCameras -> CameraTokens] :
         \E outcome \in Option5Body(t_num, t_days, t_cameras) :
            /\ EndOfBody(outcome, {"ValueError", "KeyboardInterrupt"},
                         IF outcome.screen.vals = <<>> THEN "menu" ELSE "more_durations")
            /\ menu_cameras' = IF outcome.exc = "none" /\ outcome.screen.vals # <<>>
                               THEN outcome.screen.vals[1] ELSE <<>>
    /\ UNCHANGED calc_vars

\* one pass through the inner loop of choice "5"
MenuMoreDurations ==
    /\ pc = "more_durations"
    /\ \E more_durations \in {"y", "yes", "n"}, t_days \in Tokens :
         IF more_durations \in {"y", "yes"}
         THEN LET days == ParseFloat(t_days, None)
              IN  \E outcome \in (IF days.exc # "none" THEN {Ends(days.exc)}
                                  ELSE FleetScreens(menu_cameras, days.val)) :
                     /\ EndOfBody(outcome, {"ValueError", "KeyboardInterrupt"},
                                  "more_durations")
                     /\ menu_cameras' = IF outcome.exc = "none" THEN menu_cameras ELSE <<>>
         ELSE /\ pc' = "menu"
              /\ menu_cameras' = <<>>
              /\ UNCHANGED <<screen, fault>>
    /\ UNCHANGED calc_vars

MenuOption6 ==
    /\ pc = "menu"
    /\ pc' = "exited"
    /\ screen' = [shown |-> "[EXIT] Goodbye!", vals |-> <<>>]
    /\ UNCHANGED <<calc_vars, fault, menu_cameras>>

MenuInvalidChoice ==
    /\ pc = "menu"
    /\ screen' = [shown |-> "[ERROR] Invalid choice. Please enter 1-6.", vals |-> <<>>]
    /\ UNCHANGED <<calc_vars, pc, fault, menu_cameras>>

NextMenu ==
    \/ MenuOption1
    \/ MenuOption2
    \/ MenuOption3
    \/ MenuOption4
    \/ MenuOption5
    \/ MenuMoreDurations
    \/ MenuOption6
    \/ MenuInvalidChoice

SpecMenu == Init /\ [][NextMenu]_vars

Next ==
    \/ CallStorageGb
    \/ CallStorageQuick
    \/ CallStorageHourly
    \/ CallEffectiveBitrate
    \/ CallMultipleCameras

Spec == Init /\ [][Next]_vars
(* ======================= the checked properties ======================= *)
\* the arguments of the last call as integers
BitrateOfCall == args.bitrate_mbps.n
HalfDaysOfCall == (args.days.n * 2) \div args.days.d
ReturnedHundredths == Hundredths(result.val)
ScaleFactors == {Rat(j, 2) : j \in 1..MaxScaleHalves}

\* C1 as stated: for bitrate_mbps > 0 and days > 0, calculate_storage_gb
\* returns bitrate_mbps * days * 3.7125 up to the rounding to 2 decimals,
\* calculate_storage_gb(4, 7) = 103.95 and calculate_storage_hourly(2, 12) = 3.71.
\* (in hundredths: bitrate * halfdays * 1485 / 8)
C1_AsStated ==
    /\ (op = "calculate_storage_gb" /\ BitrateOfCall > 0 /\ HalfDaysOfCall > 0)
         => 2 * Abs(8 * ReturnedHundredths - BitrateOfCall * HalfDaysOfCall * 1485) <= 8
    /\ (op = "calculate_storage_gb" /\ BitrateOfCall = 4 /\ HalfDaysOfCall = 14)
         => ReturnedHundredths = 10395
    /\ (op = "calculate_storage_hourly" /\ BitrateOfCall = 2 /\ args.hours = RInt(12))
         => ReturnedHundredths = 371

\* C1 amended: for bitrate_mbps > 0 and days > 0, calculate_storage_gb returns
\* bitrate_mbps * days * 3.7546875 (= 2403 / 640) up to the rounding to 2
\* decimals; calculate_storage_gb(4, 7) = 105.13, and
\* calculate_storage_hourly(2, 12) = calculate_storage_gb(2, 0.5) = 3.75.
\* (in hundredths: bitrate * halfdays * 12015 / 64)
C1_ClosedForm ==
    /\ (op = "calculate_storage_gb" /\ BitrateOfCall > 0 /\ HalfDaysOfCall > 0)
         => 2 * Abs(64 * ReturnedHundredths - BitrateOfCall * HalfDaysOfCall * 12015) <= 64
    /\ (op = "calculate_storage_gb" /\ BitrateOfCall = 4 /\ HalfDaysOfCall = 14)
         => ReturnedHundredths = 10513
    /\ (op = "calculate_storage_gb" /\ BitrateOfCall = 2 /\ HalfDaysOfCall = 1)
         => ReturnedHundredths = 375
    /\ (op = "calculate_storage_hourly" /\ BitrateOfCall = 2 /\ args.hours = RInt(12))
         => ReturnedHundredths = 375

C1_Witness ==
    /\ op = "calculate_storage_gb"
    /\ BitrateOfCall = 4
    /\ HalfDaysOfCall = 14
    /\ ReturnedHundredths = 10513

\* C2 as stated: the value calculate_storage_gb returns is linear in the
\* duration and in the bitrate: for every factor k, the call with k * days
\* returns k times the value returned for days, and the call with
\* k * bitrate returns k times the value returned for bitrate.
C2_AsStated ==
    op = "calculate_storage_gb" =>
        \A k \in ScaleFactors :
            /\ \E longer \in calculate_storage_gb(args.bitrate_mbps, RMul(k, args.days)) :
                   longer = RMul(k, result.val)
            /\ \E faster \in calculate_storage_gb(RMul(k, args.bitrate_mbps), args.days) :
                   faster = RMul(k, result.val)

\* C2 amended: the returned values obey the scaling law up to the rounding
\* of the two results: the call with k * days (or with k * bitrate) returns
\* a value within 0.005 * (k + 1) of k times the value returned for days
\* (for bitrate).
C2_ScalingUpToRounding ==
    op = "calculate_storage_gb" =>
        \A j \in 1..MaxScaleHalves :
            /\ \A longer \in calculate_storage_gb(args.bitrate_mbps, RMul(Rat(j, 2), args.days)) :
                   Abs(4 * Hundredths(longer) - 2 * j * ReturnedHundredths) <= j + 2
            /\ \A faster \in calculate_storage_gb(RMul(Rat(j, 2), args.bitrate_mbps), args.days) :
                   Abs(4 * Hundredths(faster) - 2 * j * ReturnedHundredths) <= j + 2

\* one day at 1 Mbps returns 3.75, two days return 7.51
C2_Witness ==
    /\ op = "calculate_storage_gb"
    /\ BitrateOfCall = 1
    /\ HalfDaysOfCall = 2
    /\ ReturnedHundredths = 375
    /\ calculate_storage_gb(RInt(1), RInt(2)) = {Rat(751, 100)}

\* the per-camera storage_gb entries of a report, added up
RECURSIVE SumOfEntries(_)
SumOfEntries(entries) ==
    IF entries = <<>> THEN RInt(0)
    ELSE RAdd(SumOfEntries(SubSeq(entries, 1, Len(entries) - 1)),
              entries[Len(entries)].storage_gb)

DutyCycleBitrate(camera) ==
    RMul(CameraGet(camera, "bitrate", RInt(0)),
         RDiv(CameraGet(camera, "hours_per_day", RInt(24)), RInt(24)))

\* C3: the report of calculate_multiple_cameras has one entry per camera,
\* each entry's storage_gb is calculate_storage_gb(bitrate * hours_per_day / 24,
\* days) of that camera, total_storage_gb is the sum of the entries, and for
\* the empty list total_storage_gb = 0 and total_storage_tb = 0.
C3_FleetTotalIsSum ==
    op = "calculate_multiple_cameras" =>
        LET report == result.val
            cameras == args.cameras_data
        IN  /\ Len(report.cameras) = Len(cameras)
            /\ \A i \in 1..Len(cameras) :
                   report.cameras[i].storage_gb
                       \in calculate_storage_gb(DutyCycleBitrate(cameras[i]), args.days)
            /\ report.total_storage_gb = SumOfEntries(report.cameras)
            /\ cameras = <<>> => /\ report.total_storage_gb = RInt(0)
                                 /\ report.total_storage_tb = RInt(0)

\* two cameras on different duty cycles, over two days
C3_Witness ==
    /\ op = "calculate_multiple_cameras"
    /\ Len(args.cameras_data) = 2
    /\ DutyCycleBitrate(args.cameras_data[1]) = Rat(1, 3)
    /\ DutyCycleBitrate(args.cameras_data[2]) = Rat(1, 2)
    /\ args.days = RInt(2)
    /\ result.val.total_storage_gb = Rat(625, 100)

\* C4 as stated: the total_storage_tb held in a report is the unrounded
\* quotient total_storage_gb / 1024.
C4_TbIsUnroundedQuotient ==
    op = "calculate_multiple_cameras" =>
        result.val.total_storage_tb = RDiv(result.val.total_storage_gb, RInt(1024))

\* C5: calculate_storage_gb returns
\* bitrate_mbps * 86400 * days / (8 * 1024) * 0.356 rounded to 2 decimals.
\* (in hundredths: bitrate * halfdays * 3075840 / 16384)
C5_ExactFormula ==
    op = "calculate_storage_gb" =>
        2 * Abs(16384 * ReturnedHundredths - BitrateOfCall * HalfDaysOfCall * 3075840)
            <= 16384

\* 4 Mbps over 4 days: 60.075 before the rounding, 60.07 returned
C5_Witness ==
    /\ op = "calculate_storage_gb"
    /\ BitrateOfCall = 4
    /\ HalfDaysOfCall = 8
    /\ ReturnedHundredths = 6007

\* C6: for reference_fps # 0, calculate_effective_bitrate returns
\* base_bitrate * (fps / reference_fps) rounded to 2 decimals; a call without
\* reference_fps returns what the call with reference_fps = 25 returns;
\* calculate_effective_bitrate(4, 30, 25) = 4.8.
C6_EffectiveBitrate ==
    op = "calculate_effective_bitrate" =>
        LET ref == IF args.reference_fps.given THEN args.reference_fps.val.n ELSE 25
        IN  /\ ref # 0 =>
                /\ result.exc = "none"
                /\ 2 * Abs(ReturnedHundredths * ref
                           - args.base_bitrate.n * args.fps.n * 100) <= ref
            /\ (args.base_bitrate = RInt(4) /\ args.fps = RInt(30) /\ ref = 25)
                   => result = Returned(Rat(48, 10))

\* the call calculate_effective_bitrate(4, 30) returns 4.8
C6_Witness ==
    /\ op = "calculate_effective_bitrate"
    /\ ~args.reference_fps.given
    /\ args.base_bitrate = RInt(4)
    /\ args.fps = RInt(30)
    /\ result = Returned(Rat(48, 10))

\* C7: calculate_effective_bitrate called with reference_fps = 0 raises
\* ZeroDivisionError and returns nothing; the 0 is not replaced by 25.
C7_ZeroReferenceRaises ==
    (op = "calculate_effective_bitrate" /\ args.reference_fps = Some(RInt(0)))
        => result = Raised("ZeroDivisionError")

C7_Witness ==
    /\ op = "calculate_effective_bitrate"
    /\ args.reference_fps = Some(RInt(0))
    /\ args.base_bitrate = RInt(4)
    /\ args.fps = RInt(30)
    /\ result.exc = "ZeroDivisionError"

\* C8: calculate_storage_quick returns bitrate_mbps * 3.75 * days rounded to
\* 2 decimals, by its own formula; calculate_storage_quick(4, 7) = 105.0.
\* (in hundredths: bitrate * halfdays * 375 / 2)
C8_QuickFormula ==
    op = "calculate_storage_quick" =>
        /\ Abs(2 * ReturnedHundredths - BitrateOfCall * HalfDaysOfCall * 375) <= 1
        /\ (BitrateOfCall = 4 /\ HalfDaysOfCall = 14) => ReturnedHundredths = 10500

C8_Witness ==
    /\ op = "calculate_storage_quick"
    /\ BitrateOfCall = 4
    /\ HalfDaysOfCall = 14
    /\ ReturnedHundredths = 10500
    /\ Rat(10500, 100) \notin calculate_storage_gb(RInt(4), RInt(7))

C10_NoUncaughtArithmeticFault == fault # "ZeroDivisionError"
====
